---- MODULE Spec2Model ----
(***************************************************************************)
(* Option[T] = Some(T) | Nil and Result[T, E] = Ok(T) | Err(E) of          *)
(* it/option.py, as a state machine: a caller holds one value x of either  *)
(* family and calls one method on it per step.  Each method is an operator *)
(* that yields what the call does: its outcome (a returned value or a      *)
(* raised exception) and the arguments with which it invoked the callable  *)
(* it was handed.  A combinator's returned value becomes the receiver of   *)
(* the next call, so chains of calls are behaviours of the machine.  The   *)
(* caller may also assign to the field of a dataclass instance and make    *)
(* further instances of the class of Nil.                                  *)
(*                                                                         *)
(* The decorators cache and lazy of it/helpers.py are two more machines,   *)
(* SpecCache and SpecLazy: the state of the closure and the record of the  *)
(* calls of the wrapper.                                                   *)
(*                                                                         *)
(* Four more machines follow the same pattern, an object and the record of *)
(* the last call made on it: SpecLinkedList for boxes.LinkedList (a heap   *)
(* of nodes and the three slots of the list), SpecTimer for timers.Timer   *)
(* (a clock and the two stopwatches), SpecSwitch for helpers.switch and    *)
(* SpecAttrDict for integer indexing of boxes.AttrDict.                    *)
(***************************************************************************)
EXTENDS Integers, Sequences, FiniteSets, TLC

\* Held values and defaults are the integers 0..MaxVal.
MaxVal == 1
\* Error payloads of each kind are numbered 0..MaxErr.
MaxErr == 1
\* A run of consecutive map calls, each on the result of the one before, is
\* followed up to MaxChain calls.
MaxChain == 3
\* At most MaxNil instances of the class of Nil are created.
MaxNil == 2
\* A lazy wrapper is called at most MaxCalls times.
MaxCalls == 8
\* A LinkedList makes at most MaxNodes nodes before it is cleared.
MaxNodes == 3
\* The clock of a Timer is followed from 0 to MaxTime.
MaxTime == 7
\* A Timer is made with a checktime, and check2 called with a time, of
\* 0..MaxCheck.
MaxCheck == 2
\* A case of a switch has at most MaxCases values.
MaxCases == 2
\* An AttrDict has at most MaxItems items.
MaxItems == 3

Values == 0..MaxVal

\* ------------------------------------------------------------------------
\* Outcomes of a call: `return value` or `raise exc`.
Return(v) == [kind |-> "return", value |-> v]
Raise(e) == [kind |-> "raise", exc |-> e]

\* What a method call does: its outcome and the arguments of the calls it
\* made to the callable it was handed, in order.
Effect(out, invoked) == [out |-> out, invoked |-> invoked]

\* Exception objects.  NilError is the class of option.py; TypeError is the
\* interpreter's; TransformError is what a failing callable raises.
NilError == [kind |-> "NilError", id |-> 0]
TypeError == [kind |-> "TypeError", id |-> 0]
TransformError == [kind |-> "TransformError", id |-> 0]
FrozenInstanceError == [kind |-> "FrozenInstanceError", id |-> 0]
KeyError == [kind |-> "KeyError", id |-> 0]

\* Payloads an Err is constructed with (the constructor validates nothing):
\* an exception instance, an exception class, or an object that is no
\* exception at all (a string such as "bad").
PayloadKinds == {"instance", "class", "other"}
Payloads == [kind : PayloadKinds, id : 0..MaxErr]

\* The callables handed to map: every table from held values to an outcome,
\* a returned value or a raised TransformError.
CallResults == {Return(v) : v \in Values} \cup {Raise(TransformError)}
Funcs == [Values -> CallResults]

\* func(arg)
Call(func, arg) == func[arg]

\* The raise statement: an exception instance is raised as it is, an
\* exception class is instantiated and the new instance raised, anything
\* else makes the statement itself fail with TypeError.
raise_stmt(obj) ==
    CASE obj.kind = "instance" -> Raise(obj)
      [] obj.kind = "class" -> Raise([kind |-> "instance_of", id |-> obj.id])
      [] OTHER -> Raise(TypeError)

\* ------------------------------------------------------------------------
\* The four variants.  Some, Ok and Err are frozen dataclasses, equal when
\* of the same class with equal fields; Nil is the one instance made by
\* @singleton.
Some(value) == [cls |-> "Some", value |-> value]

\* Calling the class of Nil makes a new instance.  The class defines no
\* __eq__, so its instances are equal only when they are the same object:
\* id tells them apart, instances being the number made before.
Nil_class_call(instances) == [cls |-> "Nil", id |-> instances]

\* @singleton: return obj(), the first instance of the decorated class.
singleton(instances) == Nil_class_call(instances)

Nil == singleton(0)

Ok(value) == [cls |-> "Ok", value |-> value]
Err(error) == [cls |-> "Err", error |-> error]

Options == {Some(v) : v \in Values} \cup {Nil}
Results == {Ok(v) : v \in Values} \cup {Err(e) : e \in Payloads}

\* The classes declared @dc.dataclass(frozen=True) that forgets frozen.
frozen_forgotten(cls) == FALSE

\* The classes declared @dc.dataclass(frozen=True).
frozen(cls) == cls \in {"Some", "Ok", "Err"}

\* self.<field> = value on a dataclass instance, the field being `error` on
\* an Err and `value` otherwise: the __setattr__ of a frozen dataclass raises
\* FrozenInstanceError, that of any other one stores the value.  Yields the
\* outcome and the object as it is afterwards.
dataclass_setattr(self, value) ==
    IF frozen(self.cls)
    THEN [out |-> Raise(FrozenInstanceError), self |-> self]
    ELSE [out |-> Return("None"),
          self |-> IF self.cls = "Err" THEN [self EXCEPT !.error = value]
                                       ELSE [self EXCEPT !.value = value]]

VARIABLES
    x,      \* the Option or Result the caller holds
    nils,   \* how many instances of the class of Nil exist
    last,   \* the last call: method, receiver, argument, outcome, invocations
            \* of the callable, and the receiver as it is after the call
    prev,   \* the call before the last one: method, receiver, outcome
    run,    \* the current chain v.map(f1).map(f2)...: the value it started
            \* from, its length, and how many times it invoked a transform
    cch,    \* a function wrapped by @cache: the results dict of the closure
            \* and the record of the last call of the wrapper
    lzy,    \* a function wrapped by @lazy: the result variable of the
            \* closure and the record of the calls of the wrapper
    ll,     \* a boxes.LinkedList, the last call of one of its methods, and
            \* the Python list kept beside it
    tmr,    \* a timers.Timer, the clock, and the last call of one of its methods
    swc,    \* a helpers.switch and the last case asked of it
    adt     \* a boxes.AttrDict and the last integer it was indexed by

vars == <<x, nils, last, prev, run, cch, lzy, ll, tmr, swc, adt>>

\* ------------------------------------------------------------------------
\* class Some
Some_expect(self) == Effect(Return(self.value), <<>>)

Some_issome(self) == Effect(Return(TRUE), <<>>)

\* Some.map that wraps the transformed value in Ok.
Some_map_wraps_in_Ok(self, func) ==
    LET r == Call(func, self.value)
    IN  Effect(IF r.kind = "raise" THEN r ELSE Return(Ok(r.value)),
               <<self.value>>)

\* Some.map that hands back the receiver and never calls func.
Some_map_returns_self(self, func) == Effect(Return(self), <<>>)

Some_map(self, func) ==
    LET r == Call(func, self.value)
    IN  Effect(IF r.kind = "raise" THEN r ELSE Return(Some(r.value)),
               <<self.value>>)

\* Some.get that returns the default.
Some_get_returns_default(self, default) == Effect(Return(default), <<>>)

Some_get(self, default) == Effect(Return(self.value), <<>>)

Some_and(self, other) == Effect(Return(other), <<>>)

Some_or(self, other) == Effect(Return(self), <<>>)

\* class Nil
Nil_issome(self) == Effect(Return(FALSE), <<>>)

\* Nil.expect that raises an error of another kind.
Nil_expect_raises_TypeError(self) == Effect(Raise(TypeError), <<>>)

Nil_expect(self) == Effect(Raise(NilError), <<>>)

\* Nil.map that calls func on the receiver before returning it.
Nil_map_invokes(self, func) == Effect(Return(self), <<self>>)

Nil_map(self, func) == Effect(Return(self), <<>>)

\* Nil.get that raises as Nil.expect does.
Nil_get_raises_NilError(self, default) == Effect(Raise(NilError), <<>>)

Nil_get(self, default) == Effect(Return(default), <<>>)

\* Nil.__and__ that returns its argument.
Nil_and_returns_other(self, other) == Effect(Return(other), <<>>)

Nil_and(self, other) == Effect(Return(self), <<>>)

Nil_or(self, other) == Effect(Return(other), <<>>)

\* class Ok
Ok_isok(self) == Effect(Return(TRUE), <<>>)

Ok_expect(self) == Effect(Return(self.value), <<>>)

\* Ok.map that wraps the transformed value in Some.
Ok_map_wraps_in_Some(self, func) ==
    LET r == Call(func, self.value)
    IN  Effect(IF r.kind = "raise" THEN r ELSE Return(Some(r.value)),
               <<self.value>>)

Ok_map(self, func) ==
    LET r == Call(func, self.value)
    IN  Effect(IF r.kind = "raise" THEN r ELSE Return(Ok(r.value)),
               <<self.value>>)

\* Ok.get that returns the default.
Ok_get_returns_default(self, default) == Effect(Return(default), <<>>)

Ok_get(self, default) == Effect(Return(self.value), <<>>)

Ok_and(self, other) == Effect(Return(other), <<>>)

\* Ok.__or__ that rebuilds its value as a Some.
Ok_or_returns_Some(self, other) == Effect(Return(Some(self.value)), <<>>)

Ok_or(self, other) == Effect(Return(self), <<>>)

\* class Err
Err_isok(self) == Effect(Return(FALSE), <<>>)

\* Err.expect that raises NilError in place of the stored error.
Err_expect_raises_NilError(self) == Effect(Raise(NilError), <<>>)

Err_expect(self) == Effect(raise_stmt(self.error), <<>>)

Err_map(self, func) == Effect(Return(self), <<>>)

\* Err.get that raises the stored error.
Err_get_raises(self, default) == Effect(raise_stmt(self.error), <<>>)

Err_get(self, default) == Effect(Return(default), <<>>)

\* Err.__and__ that returns its argument, so the second error wins.
Err_and_returns_other(self, other) == Effect(Return(other), <<>>)

Err_and(self, other) == Effect(Return(self), <<>>)

\* Err.__or__ that returns the receiver.
Err_or_returns_self(self, other) == Effect(Return(self), <<>>)

Err_or(self, other) == Effect(Return(other), <<>>)

\* ------------------------------------------------------------------------
\* Method resolution on the receiver's class.
issome(self) == IF self.cls = "Some" THEN Some_issome(self) ELSE Nil_issome(self)

isok(self) == IF self.cls = "Ok" THEN Ok_isok(self) ELSE Err_isok(self)

\* Option.isnil without the negation.
isnil_not_negated(self) == Effect(Return(issome(self).out.value), <<>>)

\* Option.isnil: not self.issome()
isnil(self) == Effect(Return(~ issome(self).out.value), <<>>)

\* Result.iserr without the negation.
iserr_not_negated(self) == Effect(Return(isok(self).out.value), <<>>)

\* Result.iserr: not self.isok()
iserr(self) == Effect(Return(~ isok(self).out.value), <<>>)

\* ------------------------------------------------------------------------
\* helpers.cache.  A call of the wrapper passes positional arguments (an
\* integer here) and keyword arguments: none, hashable ones, or unhashable
\* ones (a list as a value).  The wrapped function, when it is invoked, does
\* `does`: it returns some value or raises.
KwargKinds == {"none", "hashable", "unhashable"}

\* The key (args, frozen_kwargs) of a call, and the key `inner`, the wrapper
\* function itself.
call_key(args, kwargs) == <<args, kwargs>>
inner_key == <<"inner">>

\* d[k] on a dict.
getitem(d, k) == IF k \in DOMAIN d THEN Return(d[k]) ELSE Raise(KeyError)

\* cache(func): the closure starts with results = {}.
cache ==
    [results |-> <<>>, args |-> 0, kwargs |-> "none", hit |-> FALSE,
     stored |-> 0, ran |-> FALSE, out |-> Return(0), called |-> FALSE]

\* inner(*args, **kwargs): the outcome, the results dict afterwards, and
\* whether func was invoked.
cache_inner(results, args, kwargs, does) ==
    IF kwargs = "unhashable"
    THEN [out |-> does, results |-> results, ran |-> TRUE]
    ELSE IF call_key(args, kwargs) \in DOMAIN results
    THEN [out |-> getitem(results, inner_key), results |-> results,
          ran |-> FALSE]
    ELSE IF does.kind = "raise"
    THEN [out |-> does, results |-> results, ran |-> TRUE]
    ELSE [out |-> does,
          results |-> (call_key(args, kwargs) :> does.value) @@ results,
          ran |-> TRUE]

Cache_call ==
    /\ \E args \in Values, kwargs \in KwargKinds, does \in CallResults :
          LET key == call_key(args, kwargs)
              hit == kwargs # "unhashable" /\ key \in DOMAIN cch.results
              eff == cache_inner(cch.results, args, kwargs, does)
          IN  cch' = [results |-> eff.results, args |-> args,
                      kwargs |-> kwargs, hit |-> hit,
                      stored |-> IF hit THEN cch.results[key] ELSE 0,
                      ran |-> eff.ran, out |-> eff.out, called |-> TRUE]
    /\ UNCHANGED <<x, nils, last, prev, run, lzy, ll, tmr, swc, adt>>

\* ------------------------------------------------------------------------
\* helpers.lazy.  The wrapped function takes no argument and returns None or
\* an integer, or raises; FLAG is the object() that marks `no result yet`.
PyNone == [py |-> "None", value |-> 0]
PyInt(v) == [py |-> "int", value |-> v]
FLAG == [py |-> "object", value |-> 0]

LazyResults ==
    {Return(v) : v \in {PyNone} \cup {PyInt(v) : v \in Values}}
        \cup {Raise(TransformError)}

\* The test `result is FLAG` made against None.
is_unset_None(result) == result \in {FLAG, PyNone}

\* result is FLAG
is_unset(result) == result = FLAG

\* lazy(func): the closure starts with result = FLAG.  n counts the calls of
\* the wrapper and runs the runs of func; ran and out are the last call's;
\* returned tells that a run of func has returned, first what that run
\* returned, and had whether one had returned before the last call.
lazy ==
    [result |-> FLAG, n |-> 0, runs |-> 0, ran |-> FALSE,
     out |-> Return(FLAG), returned |-> FALSE, first |-> FLAG,
     had |-> FALSE]

\* inner(): the outcome, the result variable afterwards, and whether func
\* was run; `does` is what func does if it is run.
lazy_inner(result, does) ==
    IF is_unset(result)
    THEN [out |-> does,
          result |-> IF does.kind = "return" THEN does.value ELSE result,
          ran |-> TRUE]
    ELSE [out |-> Return(result), result |-> result, ran |-> FALSE]

Lazy_call ==
    /\ lzy.n < MaxCalls
    /\ \E does \in LazyResults :
          LET eff == lazy_inner(lzy.result, does)
              returns == eff.ran /\ does.kind = "return"
          IN  lzy' = [result |-> eff.result, n |-> lzy.n + 1,
                      runs |-> lzy.runs + (IF eff.ran THEN 1 ELSE 0),
                      ran |-> eff.ran, out |-> eff.out,
                      returned |-> lzy.returned \/ returns,
                      first |-> IF ~ lzy.returned /\ returns
                                THEN does.value ELSE lzy.first,
                      had |-> lzy.returned]
    /\ UNCHANGED <<x, nils, last, prev, run, cch, ll, tmr, swc, adt>>

\* ------------------------------------------------------------------------
\* boxes.LinkedList.  The heap is the sequence of the Node objects made so
\* far, a node being named by its position in it; None names no node.  A
\* LinkedList is its three slots and the heap its nodes live in.
None == 0

IndexError == [kind |-> "IndexError", id |-> 0]
AttributeError == [kind |-> "AttributeError", id |-> 0]
ValueError == [kind |-> "ValueError", id |-> 0]

\* Node(value, next)
Node(value, next) == [value |-> value, next |-> next]

\* LinkedList(): __init__, which clear() calls again.  No node of the list
\* cleared is referenced any more.
LinkedList == [heap |-> <<>>, first |-> None, last |-> None, length |-> 0]

\* What a method of the list does: the list afterwards and the outcome.
Does(self, out) == [self |-> self, out |-> out]

\* _iter_nodes: the nodes from _first along next, as long as there is one.
RECURSIVE follow(_, _, _)
follow(heap, current, fuel) ==
    IF current = None \/ fuel = 0
    THEN <<>>
    ELSE <<current>> \o follow(heap, heap[current].next, fuel - 1)

iter_nodes(self) == follow(self.heap, self.first, Len(self.heap))

\* __iter__: the values of the nodes of _iter_nodes.
iter(self) ==
    LET nodes == iter_nodes(self)
    IN  [i \in 1..Len(nodes) |-> self.heap[nodes[i]].value]

\* iters.nth without default: next(islice(iterable, n, None)); islice
\* rejects a negative n, and an exhausted iterator is an IndexError.
nth(iterable, n) ==
    IF n < 0 THEN Raise(ValueError)
    ELSE IF n < Len(iterable) THEN Return(iterable[n + 1])
    ELSE Raise(IndexError)

\* _assert_index passes (indices are integers).
assert_index(self, index) == 0 <= index /\ index < self.length

\* _nth_node
nth_node(self, index) ==
    IF ~ assert_index(self, index) THEN Raise(IndexError)
    ELSE nth(iter_nodes(self), index)

\* append
append(self, value) ==
    LET new == Len(self.heap) + 1
        link(node) == Append([self.heap EXCEPT ![node].next = new],
                             Node(value, None))
    IN  IF self.first = None
        THEN Does([self EXCEPT !.heap = Append(@, Node(value, None)),
                               !.first = new, !.last = new,
                               !.length = @ + 1],
                  Return("None"))
        ELSE IF self.last = self.first
        THEN Does([self EXCEPT !.heap = link(self.first), !.last = new,
                               !.length = @ + 1],
                  Return("None"))
        ELSE IF self.last = None
        THEN Does(self, Raise(AttributeError))
        ELSE Does([self EXCEPT !.heap = link(self.last), !.last = new,
                               !.length = @ + 1],
                  Return("None"))

\* append_left
append_left(self, value) ==
    Does([self EXCEPT !.heap = Append(@, Node(value, self.first)),
                      !.first = Len(self.heap) + 1,
                      !.length = @ + 1],
         Return("None"))

\* insert
insert(self, index, value) ==
    IF index = self.length THEN append(self, value)
    ELSE IF index = 0 THEN append_left(self, value)
    ELSE IF ~ assert_index(self, index) THEN Does(self, Raise(IndexError))
    ELSE LET at == nth_node(self, index)
             before == nth_node(self, index - 1)
             new == Len(self.heap) + 1
         IN  IF at.kind = "raise" THEN Does(self, at)
             ELSE IF before.kind = "raise" THEN Does(self, before)
             ELSE Does([self EXCEPT
                          !.heap = Append([@ EXCEPT ![before.value].next = new],
                                          Node(value, at.value)),
                          !.length = @ + 1],
                       Return("None"))

\* pop: pop(-1) is pop(len(self) - 1) of a list that is not empty.
pop(self, index) ==
    IF self.length = 0 THEN Does(self, Raise(IndexError))
    ELSE LET i == IF index = -1 THEN self.length - 1 ELSE index
         IN  IF i = 0
             THEN IF self.first = None
                  THEN Does(self, Raise(AttributeError))
                  ELSE Does([self EXCEPT !.first = self.heap[self.first].next,
                                         !.length = @ - 1],
                            Return(self.heap[self.first].value))
             ELSE IF ~ assert_index(self, i)
             THEN Does(self, Raise(IndexError))
             ELSE LET before == nth_node(self, i - 1)
                  IN  IF before.kind = "raise" THEN Does(self, before)
                      ELSE LET cur == self.heap[before.value].next
                           IN  IF cur = None
                               THEN Does(self, Raise(AttributeError))
                               ELSE Does([self EXCEPT
                                            !.heap[before.value].next =
                                                self.heap[cur].next,
                                            !.length = @ - 1],
                                         Return(self.heap[cur].value))

\* pop_first, pop_last
pop_first(self) == pop(self, 0)

pop_last(self) == pop(self, -1)

\* __delitem__
delitem(self, index) ==
    IF ~ assert_index(self, index) THEN Does(self, Raise(IndexError))
    ELSE IF self.length = 0
    THEN Does([LinkedList EXCEPT !.length = @ - 1], Return("None"))
    ELSE IF index = 0
    THEN IF self.first = None
         THEN Does(self, Raise(AttributeError))
         ELSE Does([self EXCEPT !.first = self.heap[self.first].next,
                                !.length = @ - 1],
                   Return("None"))
    ELSE LET before == nth_node(self, index - 1)
         IN  IF before.kind = "raise" THEN Does(self, before)
             ELSE LET cur == self.heap[before.value].next
                  IN  IF cur = None
                      THEN Does(self, Raise(AttributeError))
                      ELSE Does([self EXCEPT
                                   !.heap[before.value].next =
                                       self.heap[cur].next,
                                   !.last = IF self.heap[cur].next = None
                                            THEN before.value ELSE @,
                                   !.length = @ - 1],
                                Return("None"))

\* clear
clear(self) == Does(LinkedList, Return("None"))

\* A program that owns one LinkedList and calls its methods.  ll.self is
\* the list, ll.op and ll.out the last call and its outcome.  Beside it the
\* program keeps a Python list ll.ref to which it applies every append,
\* append_left, pop_first/pop(0) and pop_last/pop() as well, ll.refout
\* being that list's outcome; ll.ends tells that the list has had no other
\* call so far, and the Python list is dropped at the first other call.
Indices == -2..MaxNodes

NewLinkedList ==
    [self |-> LinkedList, op |-> "new", out |-> Return("None"),
     ref |-> <<>>, refout |-> Return("None"), ends |-> TRUE]

LL_call(op, does, ref, refout, ends) ==
    /\ ll' = [self |-> does.self, op |-> op, out |-> does.out,
              ref |-> IF ends THEN ref ELSE <<>>,
              refout |-> IF ends THEN refout ELSE does.out,
              ends |-> ends]
    /\ UNCHANGED <<x, nils, last, prev, run, cch, lzy, tmr, swc, adt>>

LL_append ==
    /\ Len(ll.self.heap) < MaxNodes
    /\ Len(ll.ref) < MaxNodes
    /\ \E value \in Values :
          LL_call("append", append(ll.self, value),
                  Append(ll.ref, value), Return("None"), ll.ends)

LL_append_left ==
    /\ Len(ll.self.heap) < MaxNodes
    /\ \E value \in Values :
          LL_call("append_left", append_left(ll.self, value),
                  <<value>> \o ll.ref, Return("None"), ll.ends)

LL_insert ==
    /\ Len(ll.self.heap) < MaxNodes
    /\ \E index \in Indices, value \in Values :
          LL_call("insert", insert(ll.self, index, value),
                  <<>>, Return("None"), FALSE)

LL_pop ==
    \E index \in Indices :
       IF index = 0
       THEN LL_call("pop", pop(ll.self, index),
                    IF ll.ref = <<>> THEN <<>> ELSE Tail(ll.ref),
                    IF ll.ref = <<>> THEN Raise(IndexError)
                                     ELSE Return(Head(ll.ref)),
                    ll.ends)
       ELSE IF index = -1
       THEN LL_call("pop", pop(ll.self, index),
                    IF ll.ref = <<>> THEN <<>>
                    ELSE SubSeq(ll.ref, 1, Len(ll.ref) - 1),
                    IF ll.ref = <<>> THEN Raise(IndexError)
                                     ELSE Return(ll.ref[Len(ll.ref)]),
                    ll.ends)
       ELSE LL_call("pop", pop(ll.self, index), <<>>, Return("None"), FALSE)

LL_pop_first ==
    LL_call("pop_first", pop_first(ll.self),
            IF ll.ref = <<>> THEN <<>> ELSE Tail(ll.ref),
            IF ll.ref = <<>> THEN Raise(IndexError)
                             ELSE Return(Head(ll.ref)),
            ll.ends)

LL_pop_last ==
    LL_call("pop_last", pop_last(ll.self),
            IF ll.ref = <<>> THEN <<>>
            ELSE SubSeq(ll.ref, 1, Len(ll.ref) - 1),
            IF ll.ref = <<>> THEN Raise(IndexError)
                             ELSE Return(ll.ref[Len(ll.ref)]),
            ll.ends)

LL_delitem ==
    \E index \in Indices :
       LL_call("delitem", delitem(ll.self, index),
               <<>>, Return("None"), FALSE)

LL_clear == LL_call("clear", clear(ll.self), <<>>, Return("None"), FALSE)

NextLinkedList ==
    \/ LL_append
    \/ LL_append_left
    \/ LL_insert
    \/ LL_pop
    \/ LL_pop_first
    \/ LL_pop_last
    \/ LL_delitem
    \/ LL_clear

\* ------------------------------------------------------------------------
\* timers.Stopwatch and timers.Timer.  time.time() is a clock that never
\* runs backwards, read in whole units; every method takes the values its
\* calls of time.time() return as arguments, in the order it makes them.

\* Stopwatch.__init__
Stopwatch(time) == [tic |-> time]

\* Stopwatch.restart
Stopwatch_restart(self, time) == [self EXCEPT !.tic = time]

\* Stopwatch.toc
Stopwatch_toc(self, time) == time - self.tic

\* Timer.__init__, whose checktime is 5 by default
DefaultChecktime == 5

Timer(checktime, t1, t2) ==
    [tic |-> t1, checktime |-> checktime, checker |-> Stopwatch(t2)]

\* Timer.restart
restart(self, t1, t2) ==
    Does([self EXCEPT !.checker = Stopwatch_restart(@, t1), !.tic = t2],
         Return("None"))

\* Timer.check that also fires when exactly checktime has passed.
check_at_checktime(self, t1, t2) ==
    IF Stopwatch_toc(self.checker, t1) >= self.checktime
    THEN Does([self EXCEPT !.checker = Stopwatch_restart(@, t2)],
              Return(TRUE))
    ELSE Does(self, Return(FALSE))

\* Timer.check
check(self, t1, t2) ==
    IF Stopwatch_toc(self.checker, t1) > self.checktime
    THEN Does([self EXCEPT !.checker = Stopwatch_restart(@, t2)],
              Return(TRUE))
    ELSE Does(self, Return(FALSE))

\* Timer.check2
check2(self, time, t1, t2) ==
    IF Stopwatch_toc(self.checker, t1) > time
    THEN Does([self EXCEPT !.checker = Stopwatch_restart(@, t2)],
              Return(TRUE))
    ELSE Does(self, Return(FALSE))

\* The values checktime and the argument of check2 are drawn from.
Checktimes == 0..MaxCheck

\* A program that owns one Timer.  tmr.now is the clock and tmr.self the
\* Timer; of the last call tmr keeps the method, the outcome, the first
\* reading it made of the clock (read), the time at which it returned (at),
\* what the checker's tic was before it (was) and how far the first
\* reading was from tmr.since (elapsed).  tmr.since is the time at which the Timer was made or
\* restarted or check()/check2() last returned True, whichever came last;
\* tmr.trued is the time at which check() last returned True and tmr.had
\* tells that it has done so, tmr.before being their values before the
\* last call.
NewTimer ==
    [now |-> 0, self |-> Timer(DefaultChecktime, 0, 0), op |-> "new",
     out |-> Return("None"), read |-> 0, at |-> 0, was |-> 0, since |-> 0,
     elapsed |-> 0, had |-> FALSE, trued |-> 0,
     before |-> [had |-> FALSE, trued |-> 0]]

\* The readings two successive calls of time.time() can return.
Readings ==
    {r \in (tmr.now..MaxTime) \X (tmr.now..MaxTime) :
        /\ r[1] <= tmr.now + 1
        /\ r[1] <= r[2]
        /\ r[2] <= r[1] + 1}

Timer_call(op, r, does, fired) ==
    /\ tmr' = [now |-> r[2], self |-> does.self, op |-> op,
               out |-> does.out, read |-> r[1], at |-> r[2],
               was |-> tmr.self.checker.tic,
               since |-> IF op = "new" THEN r[2]
                         ELSE IF op = "restart" THEN r[1]
                         ELSE IF does.out = Return(TRUE) THEN r[2]
                         ELSE tmr.since,
               elapsed |-> r[1] - tmr.since,
               had |-> IF op = "new" THEN FALSE ELSE tmr.had \/ fired,
               trued |-> IF fired THEN r[2] ELSE tmr.trued,
               before |-> [had |-> op # "new" /\ tmr.had,
                           trued |-> tmr.trued]]
    /\ UNCHANGED <<x, nils, last, prev, run, cch, lzy, ll, swc, adt>>

Timer_new ==
    \E checktime \in Checktimes, r \in Readings :
       Timer_call("new", r,
                  Does(Timer(checktime, r[1], r[2]), Return("None")),
                  FALSE)

Timer_restart ==
    \E r \in Readings :
       Timer_call("restart", r, restart(tmr.self, r[1], r[2]), FALSE)

Timer_check ==
    \E r \in Readings :
       LET does == check(tmr.self, r[1], r[2])
       IN  Timer_call("check",
                      IF does.out = Return(TRUE) THEN r ELSE <<r[1], r[1]>>,
                      does, does.out = Return(TRUE))

Timer_check2 ==
    \E time \in Checktimes, r \in Readings :
       LET does == check2(tmr.self, time, r[1], r[2])
       IN  Timer_call("check2",
                      IF does.out = Return(TRUE) THEN r ELSE <<r[1], r[1]>>,
                      does, FALSE)

\* Time passes between two calls.
Sleep ==
    /\ tmr.now < MaxTime
    /\ tmr' = [tmr EXCEPT !.now = @ + 1]
    /\ UNCHANGED <<x, nils, last, prev, run, cch, lzy, ll, swc, adt>>

NextTimer ==
    \/ Timer_new
    \/ Timer_restart
    \/ Timer_check
    \/ Timer_check2
    \/ Sleep

\* ------------------------------------------------------------------------
\* helpers.switch.  The object switched on and the values of a case are
\* integers.

\* switch.valid_ops: the function of the operator module (or the builtin)
\* each op names.
valid_ops ==
    ("==" :> "eq") @@ ("isinstance" :> "isinstance")
        @@ ("issubclass" :> "issubclass") @@ ("in" :> "contains")
        @@ ("is" :> "is_") @@ ("<" :> "lt") @@ ("<=" :> "le")
        @@ (">" :> "gt") @@ (">=" :> "gt") @@ ("!=" :> "ne")

\* f(a, b) for f a function of the operator module and a, b integers;
\* an integer contains nothing, and small integers are one object each.
operator(f, a, b) ==
    CASE f = "eq" -> Return(a = b)
      [] f = "ne" -> Return(a # b)
      [] f = "lt" -> Return(a < b)
      [] f = "le" -> Return(a <= b)
      [] f = "gt" -> Return(a > b)
      [] f = "is_" -> Return(a = b)
      [] f = "contains" -> Raise(TypeError)

\* any(...) of a generator whose items are computed one by one.
RECURSIVE any(_)
any(items) ==
    IF items = <<>> THEN Return(FALSE)
    ELSE IF Head(items).kind = "raise" THEN Head(items)
    ELSE IF Head(items).value THEN Return(TRUE)
    ELSE any(Tail(items))

\* switch.__init__
switch(obj) == [obj |-> obj]

\* switch.__call__: isinstance and issubclass are called with the tuple
\* of values as their only argument, which is a TypeError.
switch_call(self, values, op) ==
    IF Len(values) = 0 THEN Return(FALSE)
    ELSE IF op \in {"isinstance", "issubclass"} THEN Raise(TypeError)
    ELSE IF op \in DOMAIN valid_ops
    THEN any([i \in 1..Len(values) |->
                 operator(valid_ops[op], self.obj, values[i])])
    ELSE Raise(ValueError)

\* The values of a case, and the ops a case is called with: the valid ones
\* and one that is not.
Cases == UNION {[1..n -> Values] : n \in 0..MaxCases}
Ops == DOMAIN valid_ops \cup {"=>"}

\* A program that switches on an object and asks one case.
NoSwitch ==
    [called |-> FALSE, obj |-> 0, values |-> <<>>, op |-> "==",
     out |-> Return(FALSE)]

Switch_case ==
    /\ \E obj \in Values, values \in Cases, op \in Ops :
          swc' = [called |-> TRUE, obj |-> obj, values |-> values,
                  op |-> op, out |-> switch_call(switch(obj), values, op)]
    /\ UNCHANGED <<x, nils, last, prev, run, cch, lzy, ll, tmr, adt>>

\* ------------------------------------------------------------------------
\* boxes.AttrDict indexed by an integer.  An AttrDict is the sequence of its
\* values in insertion order, which is what iterating it yields.

\* AttrDict.__getitem__ for an int key
AttrDict_getitem(self, key) ==
    IF key < 0 THEN nth(self, key + Len(self))
    ELSE IF ~ (0 <= key /\ key < Len(self)) THEN Raise(IndexError)
    ELSE nth(self, key)

\* The AttrDicts of up to MaxItems items and the integers they are indexed
\* by, which reach past both ends of every one of them.
AttrDicts == UNION {[1..n -> Values] : n \in 0..MaxItems}
IntKeys == (0 - MaxItems - 1)..(MaxItems + 1)

\* A program that makes an AttrDict and indexes it once.
NoAttrDict == [called |-> FALSE, self |-> <<>>, key |-> 0, out |-> Return(0)]

AttrDict_index ==
    /\ \E self \in AttrDicts, key \in IntKeys :
          adt' = [called |-> TRUE, self |-> self, key |-> key,
                  out |-> AttrDict_getitem(self, key)]
    /\ UNCHANGED <<x, nils, last, prev, run, cch, lzy, ll, tmr, swc>>

\* ------------------------------------------------------------------------
\* One call by the caller.  A call that returns a member of the family
\* (chain = TRUE) hands the caller its next receiver.
Step(op, arg, out, invoked, after, xnext) ==
    LET continues == last.op = "map" /\ last.out.kind = "return"
    IN  /\ op = "map" /\ continues => run.len < MaxChain
        /\ last' = [op |-> op, self |-> x, arg |-> arg, out |-> out,
                    invoked |-> invoked, after |-> after]
        /\ prev' = [op |-> last.op, self |-> last.self, out |-> last.out]
        /\ x' = xnext
        /\ UNCHANGED <<cch, lzy, ll, tmr, swc, adt>>
        /\ run' = IF op # "map"
                     THEN [start |-> x', len |-> 0, invoked |-> 0]
                  ELSE IF continues
                     THEN [start |-> run.start, len |-> run.len + 1,
                           invoked |-> run.invoked + Len(invoked)]
                  ELSE [start |-> x, len |-> 1, invoked |-> Len(invoked)]

\* A method call: no method assigns to self, so the receiver is afterwards
\* what it was.
Do(op, arg, eff, chain) ==
    /\ Step(op, arg, eff.out, eff.invoked, x,
            IF chain /\ eff.out.kind = "return" THEN eff.out.value ELSE x)
    /\ UNCHANGED nils

\* The instances of the class of Nil that exist, and the Options at hand.
NilInstances == {Nil_class_call(k) : k \in 0..(nils - 1)}
OptionsNow == Options \cup NilInstances

IsOption == x.cls \in {"Some", "Nil"}
IsResult == x.cls \in {"Ok", "Err"}

Init ==
    /\ x \in Options \cup Results
    /\ nils = 1
    /\ last = [op |-> "new", self |-> x, arg |-> 0,
               out |-> Return(x), invoked |-> <<>>, after |-> x]
    /\ prev = [op |-> "none", self |-> x, out |-> Return(x)]
    /\ run = [start |-> x, len |-> 0, invoked |-> 0]
    /\ cch = cache
    /\ lzy = lazy
    /\ ll = NewLinkedList
    /\ tmr = NewTimer
    /\ swc = NoSwitch
    /\ adt = NoAttrDict

Option_issome == IsOption /\ Do("issome", 0, issome(x), FALSE)

Option_isnil == IsOption /\ Do("isnil", 0, isnil(x), FALSE)

Option_expect ==
    /\ IsOption
    /\ Do("expect", 0,
          IF x.cls = "Some" THEN Some_expect(x) ELSE Nil_expect(x), FALSE)

Option_map ==
    /\ IsOption
    /\ \E func \in Funcs :
          Do("map", func,
             IF x.cls = "Some" THEN Some_map(x, func) ELSE Nil_map(x, func),
             TRUE)

Option_get ==
    /\ IsOption
    /\ \E default \in Values :
          Do("get", default,
             IF x.cls = "Some" THEN Some_get(x, default)
                               ELSE Nil_get(x, default),
             FALSE)

Option_and ==
    /\ IsOption
    /\ \E other \in OptionsNow :
          Do("and", other,
             IF x.cls = "Some" THEN Some_and(x, other) ELSE Nil_and(x, other),
             TRUE)

Option_or ==
    /\ IsOption
    /\ \E other \in OptionsNow :
          Do("or", other,
             IF x.cls = "Some" THEN Some_or(x, other) ELSE Nil_or(x, other),
             TRUE)

\* type(x)() on an instance of the class of Nil: one more instance.
Nil_reconstruct ==
    /\ x.cls = "Nil"
    /\ nils < MaxNil
    /\ Step("construct", 0, Return(Nil_class_call(nils)), <<>>, x,
            Nil_class_call(nils))
    /\ nils' = nils + 1

\* Nil(): the name is bound to the instance, which is not callable.
Nil_call ==
    /\ x.cls = "Nil"
    /\ Step("call", 0, Raise(TypeError), <<>>, x, x)
    /\ UNCHANGED nils

\* x.value = v on a Some or an Ok, x.error = e on an Err.
Setattr ==
    /\ x.cls \in {"Some", "Ok", "Err"}
    /\ \E value \in (IF x.cls = "Err" THEN Payloads ELSE Values) :
          LET eff == dataclass_setattr(x, value)
          IN  Step("setattr", value, eff.out, <<>>, eff.self, eff.self)
    /\ UNCHANGED nils

Result_isok == IsResult /\ Do("isok", 0, isok(x), FALSE)

Result_iserr == IsResult /\ Do("iserr", 0, iserr(x), FALSE)

Result_expect ==
    /\ IsResult
    /\ Do("expect", 0,
          IF x.cls = "Ok" THEN Ok_expect(x) ELSE Err_expect(x), FALSE)

Result_map ==
    /\ IsResult
    /\ \E func \in Funcs :
          Do("map", func,
             IF x.cls = "Ok" THEN Ok_map(x, func) ELSE Err_map(x, func),
             TRUE)

Result_get ==
    /\ IsResult
    /\ \E default \in Values :
          Do("get", default,
             IF x.cls = "Ok" THEN Ok_get(x, default) ELSE Err_get(x, default),
             FALSE)

Result_and ==
    /\ IsResult
    /\ \E other \in Results :
          Do("and", other,
             IF x.cls = "Ok" THEN Ok_and(x, other) ELSE Err_and(x, other),
             TRUE)

Result_or ==
    /\ IsResult
    /\ \E other \in Results :
          Do("or", other,
             IF x.cls = "Ok" THEN Ok_or(x, other) ELSE Err_or(x, other),
             TRUE)

Next ==
    \/ Option_issome
    \/ Option_isnil
    \/ Option_expect
    \/ Option_map
    \/ Option_get
    \/ Option_and
    \/ Option_or
    \/ Result_isok
    \/ Result_iserr
    \/ Result_expect
    \/ Result_map
    \/ Result_get
    \/ Result_and
    \/ Result_or
    \/ Nil_reconstruct
    \/ Nil_call
    \/ Setattr

Spec == Init /\ [][Next]_vars

\* A program that only calls a function wrapped by @cache, and one that only
\* calls a function wrapped by @lazy.
InitHelpers == Init /\ x = Nil

SpecCache == InitHelpers /\ [][Cache_call]_vars

SpecLazy == InitHelpers /\ [][Lazy_call]_vars

\* A program that only indexes AttrDicts.
SpecAttrDict == InitHelpers /\ [][AttrDict_index]_vars

\* A program that only asks cases of a switch.
SpecSwitch == InitHelpers /\ [][Switch_case]_vars

\* A program that only uses a Timer.
SpecTimer == InitHelpers /\ [][NextTimer]_vars

\* A program that only calls the methods of a LinkedList.
SpecLinkedList == InitHelpers /\ [][NextLinkedList]_vars

\* ------------------------------------------------------------------------
\* Properties of the last call.

OnOption(op) == last.op = op /\ last.self.cls \in {"Some", "Nil"}
OnResult(op) == last.op = op /\ last.self.cls \in {"Ok", "Err"}

\* C1: Option.map.  Some(v).map(f) invokes f exactly once, on v, and is
\* Some(f(v)): Some of what f returned, or f's failure when f(v) fails;
\* Nil.map(f) is Nil and f is not invoked.
C1_OptionMap ==
    OnOption("map") =>
        IF last.self.cls = "Some"
        THEN /\ last.invoked = <<last.self.value>>
             /\ LET r == last.arg[last.self.value]
                IN  IF r.kind = "return"
                    THEN last.out = Return(Some(r.value))
                    ELSE last.out = r
        ELSE /\ last.out = Return(last.self)
             /\ last.self = Nil => last.out = Return(Nil)
             /\ last.invoked = <<>>

\* Some(0).map(f) with f(0) = 1 returned Some(1) after one invocation.
C1_Witness ==
    /\ OnOption("map")
    /\ last.self = Some(0)
    /\ last.arg[0] = Return(1)
    /\ last.out = Return(Some(1))
    /\ Len(last.invoked) = 1

\* C2: Result.map.  Ok(v).map(f) is Ok(f(v)), f invoked once on v;
\* Err(e).map(f) returns Err(e) with the same payload and f is not invoked.
C2_ResultMap ==
    OnResult("map") =>
        IF last.self.cls = "Ok"
        THEN /\ last.invoked = <<last.self.value>>
             /\ LET r == last.arg[last.self.value]
                IN  IF r.kind = "return"
                    THEN last.out = Return(Ok(r.value))
                    ELSE last.out = r
        ELSE /\ last.out = Return(Err(last.self.error))
             /\ last.invoked = <<>>

\* Ok(1).map(f) with f(1) = 0 returned Ok(0).
C2_Witness ==
    /\ OnResult("map")
    /\ last.self = Ok(1)
    /\ last.arg[1] = Return(0)
    /\ last.out = Return(Ok(0))

\* C3: Option.expect.  Some(v).expect() returns v; Nil.expect() raises
\* NilError and returns nothing.
C3_OptionExpect ==
    OnOption("expect") =>
        IF last.self.cls = "Some"
        THEN last.out = Return(last.self.value)
        ELSE last.out = Raise(NilError)

\* Nil.expect() raised.
C3_Witness ==
    /\ OnOption("expect")
    /\ last.self = Nil
    /\ last.out.kind = "raise"

SafeOps == {"get", "map", "and", "or"}
TestOps == {"issome", "isnil", "isok", "iserr"}

\* C5 as claimed: get, map, __and__ and __or__ return a value whatever the
\* receiver and the argument; expect is the only call that fails, and only
\* on Nil or Err.
C5_CombinatorsNeverFail ==
    /\ last.op \in SafeOps \cup TestOps => last.out.kind = "return"
    /\ last.op = "expect" /\ last.out.kind = "raise"
           => last.self.cls \in {"Nil", "Err"}

\* C5, amended: get, __and__ and __or__ always return a value; map returns
\* a value unless the receiver is Some or Ok and the transform itself fails
\* on the held value, and then map fails with the transform's failure;
\* expect fails only on Nil or Err.
C5_Totality ==
    /\ last.op \in {"get", "and", "or"} \cup TestOps
           => last.out.kind = "return"
    /\ last.op = "map" =>
           IF /\ last.self.cls \in {"Some", "Ok"}
              /\ last.arg[last.self.value].kind = "raise"
           THEN last.out = last.arg[last.self.value]
           ELSE last.out.kind = "return"
    /\ last.op = "expect" /\ last.out.kind = "raise"
           => last.self.cls \in {"Nil", "Err"}

\* Some(v).map(f) with f failing on v failed with f's failure, after a
\* single invocation of f.
C5_Witness ==
    /\ last.op = "map"
    /\ last.self.cls = "Some"
    /\ last.out = Raise(TransformError)
    /\ last.invoked = <<last.self.value>>

\* C6: Option __and__/__or__ truth table.  Some(a) & o is o; Nil & o is Nil;
\* Some(a) | o is Some(a); Nil | o is o.
C6_OptionAndOr ==
    /\ OnOption("and") =>
           IF last.self.cls = "Some"
           THEN last.out = Return(last.arg)
           ELSE /\ last.out = Return(last.self)
                /\ last.self = Nil => last.out = Return(Nil)
    /\ OnOption("or") =>
           IF last.self.cls = "Some"
           THEN last.out = Return(Some(last.self.value))
           ELSE last.out = Return(last.arg)

\* Nil & Some(1) returned Nil.
C6_Witness ==
    /\ OnOption("and")
    /\ last.self = Nil
    /\ last.arg = Some(1)
    /\ last.out = Return(Nil)

\* C7: Result __and__/__or__ truth table.  Ok(a) & r is r; Err(e) & r is
\* Err(e), the first error; Ok(a) | r is Ok(a); Err(e) | r is r.
C7_ResultAndOr ==
    /\ OnResult("and") =>
           IF last.self.cls = "Ok"
           THEN last.out = Return(last.arg)
           ELSE last.out = Return(Err(last.self.error))
    /\ OnResult("or") =>
           IF last.self.cls = "Ok"
           THEN last.out = Return(Ok(last.self.value))
           ELSE last.out = Return(last.arg)

\* Err(e) & Err(e2), with e2 another payload, returned Err(e).
C7_Witness ==
    /\ OnResult("and")
    /\ last.self.cls = "Err"
    /\ last.arg.cls = "Err"
    /\ last.arg.error # last.self.error
    /\ last.out = Return(Err(last.self.error))

\* C8: Option.get.  Some(v).get(d) returns v and Nil.get(d) returns d; the
\* call never fails.
C8_OptionGet ==
    OnOption("get") =>
        IF last.self.cls = "Some"
        THEN last.out = Return(last.self.value)
        ELSE last.out = Return(last.arg)

\* Some(0).get(1) returned 0.
C8_Witness ==
    /\ OnOption("get")
    /\ last.self = Some(0)
    /\ last.arg = 1
    /\ last.out = Return(0)

\* C9: Result.get.  Ok(v).get(d) returns v and Err(e).get(d) returns d,
\* whatever the payload e.
C9_ResultGet ==
    OnResult("get") =>
        IF last.self.cls = "Ok"
        THEN last.out = Return(last.self.value)
        ELSE last.out = Return(last.arg)

\* Ok(1).get(0) returned 1.
C9_Witness ==
    /\ OnResult("get")
    /\ last.self = Ok(1)
    /\ last.arg = 0
    /\ last.out = Return(1)

\* C10: Option variant test.  Some(v).issome() is True, Nil.issome() is
\* False, and isnil() returns the negation of what issome() returns on the
\* same value.
C10_OptionVariantTest ==
    /\ OnOption("issome") => last.out = Return(last.self.cls = "Some")
    /\ OnOption("isnil") => last.out = Return(last.self.cls # "Some")

\* Some(v).isnil() returned False.
C10_Witness ==
    /\ OnOption("isnil")
    /\ last.self.cls = "Some"
    /\ last.out = Return(FALSE)

\* C11: Result variant test.  Ok(v).isok() is True and Err(e).isok() is
\* False for every v and e, and iserr() returns the opposite of isok() on
\* the same value, so exactly one of the two tests is true.
C11_ResultVariantTest ==
    /\ OnResult("isok") => last.out = Return(last.self.cls = "Ok")
    /\ OnResult("iserr") => last.out = Return(last.self.cls # "Ok")

\* Err(e).iserr() returned True.
C11_Witness ==
    /\ OnResult("iserr")
    /\ last.self.cls = "Err"
    /\ last.out = Return(TRUE)

Combinators == {"map", "and", "or"}

\* The family a value belongs to, by its class.
Family(v) ==
    CASE v.cls \in {"Some", "Nil"} -> "Option"
      [] v.cls \in {"Ok", "Err"} -> "Result"
      [] OTHER -> "neither"

\* C12: closed variants.  Whatever sequence of map, __and__ and __or__ was
\* applied, the value in hand is a Some or a Nil if the sequence started from
\* an Option, an Ok or an Err if it started from a Result: each combinator
\* returns a well-formed member of its receiver's family.
C12_ClosedVariants ==
    /\ x \in OptionsNow \cup Results
    /\ Family(x) = Family(last.self)
    /\ Family(last.self) = Family(prev.self)
    /\ last.op \in Combinators /\ last.out.kind = "return"
           => /\ last.out.value \in OptionsNow \cup Results
              /\ Family(last.out.value) = Family(last.self)

\* Two combinators in a row, the second on the result of the first:
\* (Ok(a) & r).map(f) returned a Result.
C12_Witness ==
    /\ prev.op = "and"
    /\ prev.self.cls = "Ok"
    /\ prev.out.kind = "return"
    /\ last.op = "map"
    /\ last.self = prev.out.value
    /\ last.out.kind = "return"
    /\ Family(last.out.value) = "Result"

\* C15: chained map short-circuit.  Nil.map(f1).map(f2)...map(fn), n >= 1,
\* is Nil and invokes none of f1..fn; Err(e).map(f1)...map(fn) is Err(e) and
\* invokes none of them either.
C15_ChainShortCircuit ==
    run.len >= 1 /\ run.start.cls \in {"Nil", "Err"} =>
        /\ run.invoked = 0
        /\ last.out = Return(run.start)
        /\ x = run.start

\* A chain of MaxChain maps that started from Nil ended in Nil.
C15_Witness ==
    /\ run.len = MaxChain
    /\ run.start = Nil
    /\ x = Nil
    /\ run.invoked = 0

\* The identity transform.
Identity == [v \in Values |-> Return(v)]

\* C16: identity law.  map(identity) returns a value equal to its receiver:
\* Some(v).map(identity) == Some(v), Ok(v).map(identity) == Ok(v), and Nil
\* and Err(e) are returned as they are.
C16_MapIdentity ==
    last.op = "map" /\ last.arg = Identity => last.out = Return(last.self)

\* Some(1).map(identity) returned Some(1), after calling identity.
C16_Witness ==
    /\ last.op = "map"
    /\ last.arg = Identity
    /\ last.self = Some(1)
    /\ last.out = Return(Some(1))
    /\ last.invoked = <<1>>

\* C17: map then get on an Option.  Some(v).map(f).get(d) is f(v): the get
\* is made on Some(f(v)) and returns what f returned, and when f(v) fails the
\* expression has failed in map with f's failure; Nil.map(f).get(d) is d.
C17_MapThenGet ==
    [][ /\ last.op = "map"
        /\ last.self.cls \in {"Some", "Nil"}
        /\ last'.op = "get"
        => IF last.self.cls = "Some"
           THEN LET r == last.arg[last.self.value]
                IN  IF r.kind = "return"
                    THEN /\ last'.self = Some(r.value)
                         /\ last'.out = Return(r.value)
                    ELSE last.out = r
           ELSE /\ last'.self = last.self
                /\ last'.out = Return(last'.arg) ]_vars

\* Some(0).map(f).get(0) returned 1, f(0) being 1.
C17_Witness ==
    /\ prev.op = "map"
    /\ prev.self = Some(0)
    /\ prev.out = Return(Some(1))
    /\ last.op = "get"
    /\ last.self = Some(1)
    /\ last.arg = 0
    /\ last.out = Return(1)

\* C18: __and__/__or__ then expect on a Result.  (Ok(a) & Ok(b)).expect()
\* returns b, and (Err(e) | Ok(v)).expect() returns v without failing,
\* whatever the payload e.
C18_AndOrThenExpect ==
    [][ /\ last.op \in {"and", "or"}
        /\ last.self.cls = (IF last.op = "and" THEN "Ok" ELSE "Err")
        /\ last.arg.cls = "Ok"
        /\ last'.op = "expect"
        => /\ last'.self = last.arg
           /\ last'.out = Return(last.arg.value) ]_vars

\* (Err("bad") | Ok(1)).expect() returned 1.
C18_Witness ==
    /\ prev.op = "or"
    /\ prev.self.cls = "Err"
    /\ prev.self.error.kind = "other"
    /\ prev.out = Return(Ok(1))
    /\ last.op = "expect"
    /\ last.self = Ok(1)
    /\ last.out = Return(1)

\* C13: immutability.  Whatever is called on a Some, an Ok or an Err (a
\* method, or an assignment to its field), the object holds afterwards the
\* value or error it held before, hence the one it was constructed with; an
\* assignment to the field is rejected with FrozenInstanceError.
C13_Immutable ==
    /\ last.op # "new" /\ last.self.cls \in {"Some", "Ok", "Err"}
           => last.after = last.self
    /\ last.op = "setattr"
           => /\ last.out = Raise(FrozenInstanceError)
              /\ x = last.self

\* Some(0).value = 1 was rejected and the object is still Some(0).
C13_Witness ==
    /\ last.op = "setattr"
    /\ last.self = Some(0)
    /\ last.arg = 1
    /\ last.out.kind = "raise"
    /\ last.after = Some(0)
    /\ x = Some(0)

\* C14 as claimed: a single Nil exists, and every absent Option that can be
\* obtained, by a combinator or by constructing the empty variant again, is
\* that value and equal to Nil.
C14_NilUnique ==
    /\ nils = 1
    /\ x.cls = "Nil" => x = Nil
    /\ last.op = "construct" => last.out = Return(Nil)
    /\ last.op \in Combinators /\ last.out.kind = "return"
           /\ last.out.value.cls = "Nil"
           => last.out.value = Nil

\* C19 as claimed: a call of the cached wrapper whose positional arguments
\* and hashable keyword arguments were used before returns the result the
\* first call stored, without invoking the function and without raising; a
\* call with unhashable keyword arguments invokes the function.
C19_CacheHit ==
    /\ cch.hit => /\ ~ cch.ran
                  /\ cch.out = Return(cch.stored)
    /\ cch.called /\ cch.kwargs = "unhashable" => cch.ran

C21_ListAtBothEnds ==
    ll.ends => /\ ll.out = ll.refout
               /\ iter(ll.self) = ll.ref

\* C22 as claimed: after any sequence of append, append_left, insert, pop,
\* __delitem__ and clear, len(ll) is the number of nodes reachable from
\* _first along next, _first is None exactly when the length is 0, and the
\* _last of a list that is not empty is the last reachable node, the one
\* whose next is None.
C22_Structure ==
    LET nodes == iter_nodes(ll.self)
    IN  /\ ll.self.length = Len(nodes)
        /\ ll.self.first = None <=> ll.self.length = 0
        /\ ll.self.length # 0 =>
              /\ ll.self.last # None
              /\ nodes # <<>>
              /\ ll.self.last = nodes[Len(nodes)]
              /\ ll.self.heap[ll.self.last].next = None

\* ------------------------------------------------------------------------
\* timers.Timer

Comparisons == {"==", "!=", "<", "<=", ">", ">="}

Compares(a, op, b) ==
    CASE op = "==" -> a = b
      [] op = "!=" -> a # b
      [] op = "<" -> a < b
      [] op = "<=" -> a <= b
      [] op = ">" -> a > b
      [] op = ">=" -> a >= b

\* C24 as claimed: for each comparison operator op of ==, !=, <, <=, >,
\* >=, a case of one or more values returns whether (obj op v) holds for
\* at least one of them; a case of no values returns False; a case of one
\* or more values with an op that is not valid raises ValueError.
C24_SwitchCompares ==
    swc.called =>
        /\ swc.values # <<>> /\ swc.op \in Comparisons =>
              swc.out = Return(\E i \in 1..Len(swc.values) :
                                  Compares(swc.obj, swc.op, swc.values[i]))
        /\ swc.values = <<>> => swc.out = Return(FALSE)
        /\ swc.values # <<>> /\ swc.op \notin DOMAIN valid_ops =>
              swc.out = Raise(ValueError)

\* ------------------------------------------------------------------------
\* boxes.AttrDict

\* C25 as claimed: for an AttrDict of n values and every integer i, ad[i]
\* returns the value at position i of the values in insertion order, a
\* negative i counting from the end, when -n <= i < n, and raises
\* IndexError when i is outside that range.
C25_AttrDictIndex ==
    adt.called =>
        LET n == Len(adt.self)
            i == adt.key
        IN  /\ 0 <= i /\ i < n => adt.out = Return(adt.self[i + 1])
            /\ 0 - n <= i /\ i < 0 => adt.out = Return(adt.self[n + i + 1])
            /\ i < 0 - n \/ i >= n => adt.out = Raise(IndexError)

\* ------------------------------------------------------------------------
\* expect against the variant tests, and __and__/__or__ against them

\* C26: expect succeeds exactly on the present variant.  For every Option
\* x, x.expect() returns a value exactly when x.issome() is True and fails
\* exactly when x.isnil() is True; for every Result r, r.expect() returns a
\* value exactly when r.isok() is True and fails exactly when r.iserr() is
\* True; and a value that expect() returns is what get(d) returns on the
\* same receiver, for every default d.
C26_ExpectIffPresent ==
    /\ OnOption("expect") =>
          /\ last.out.kind = "return" <=> issome(last.self).out = Return(TRUE)
          /\ last.out.kind = "raise" <=> isnil(last.self).out = Return(TRUE)
          /\ last.out.kind = "return" =>
                \A default \in Values :
                   last.out = (IF last.self.cls = "Some"
                               THEN Some_get(last.self, default)
                               ELSE Nil_get(last.self, default)).out
    /\ OnResult("expect") =>
          /\ last.out.kind = "return" <=> isok(last.self).out = Return(TRUE)
          /\ last.out.kind = "raise" <=> iserr(last.self).out = Return(TRUE)
          /\ last.out.kind = "return" =>
                \A default \in Values :
                   last.out = (IF last.self.cls = "Ok"
                               THEN Ok_get(last.self, default)
                               ELSE Err_get(last.self, default)).out

\* Ok(1).expect() returned 1, which is also what Ok(1).get(0) returns, and
\* Ok(1).isok() is True.
C26_Witness ==
    /\ OnResult("expect")
    /\ last.self = Ok(1)
    /\ last.out = Return(1)
    /\ Ok_get(last.self, 0).out = Return(1)
    /\ isok(last.self).out = Return(TRUE)

\* C27: the variant of what __and__ and __or__ return follows boolean
\* logic.  For all Options x and y, (x & y).issome() is x.issome() and
\* y.issome(), and (x | y).issome() is x.issome() or y.issome(); likewise
\* for all Results with isok.
C27_AndOrBoolean ==
    /\ OnOption("and") =>
          /\ last.out.kind = "return"
          /\ issome(last.out.value).out =
                Return(issome(last.self).out.value
                          /\ issome(last.arg).out.value)
    /\ OnOption("or") =>
          /\ last.out.kind = "return"
          /\ issome(last.out.value).out =
                Return(issome(last.self).out.value
                          \/ issome(last.arg).out.value)
    /\ OnResult("and") =>
          /\ last.out.kind = "return"
          /\ isok(last.out.value).out =
                Return(isok(last.self).out.value /\ isok(last.arg).out.value)
    /\ OnResult("or") =>
          /\ last.out.kind = "return"
          /\ isok(last.out.value).out =
                Return(isok(last.self).out.value \/ isok(last.arg).out.value)

\* Nil | Some(v) returned a value that is a Some, and Nil is not one.
C27_Witness ==
    /\ OnOption("or")
    /\ last.self = Nil
    /\ last.arg.cls = "Some"
    /\ last.out.kind = "return"
    /\ issome(last.out.value).out = Return(TRUE)
    /\ issome(last.self).out = Return(FALSE)

====
